---- MODULE Spec2Model ----
(***************************************************************************)
(* Model of the uamutations numeric core:                                  *)
(*   src/src/vector_fns.rs  get_ordering_index, calculate_dists            *)
(*   src/src/lib.rs         aggregate_to_groups,                           *)
(*                          aggregate_to_groups_single_col, uamutate       *)
(*                                                                         *)
(* f64 values are modelled as pairs <<n, d>>: the rational n/d in lowest   *)
(* terms with d > 0, and the IEEE special values <<1,0>> (+inf),           *)
(* <<-1,0>> (-inf) and <<0,0>> (NaN).  Arithmetic on finite values is      *)
(* exact; the inputs are small integers, for which sums and differences    *)
(* are exact in f64 as well.  Indices are 0-based as in the source; the    *)
(* element with index i of a vector v is v[i + 1].                         *)
(***************************************************************************)
EXTENDS Integers, Sequences, FiniteSets

VARIABLES
    pc,             \* position of the modelled call
    vals,           \* get_ordering_index: input slice
    desc,           \* get_ordering_index: flag
    is_abs,         \* get_ordering_index: flag
    index,          \* get_ordering_index: returned vector
    values1,        \* primary row of the source matrix
    values2,        \* primary row of the target matrix
    absolute,       \* calculate_dists: flag
    sorting_order,  \* calculate_dists: local
    k,              \* calculate_dists: iterations of the matching loop done
    used_indices,   \* calculate_dists: local HashSet
    nearest_dists,  \* calculate_dists: local, the returned vector
    groups,         \* group vector (1-based ids)
    dists,          \* distance matrix, a sequence of rows
    dists_col,      \* aggregate_to_groups_single_col: the column aggregated
    sums,           \* aggregate_to_groups_single_col: returned vector
    result          \* aggregate_to_groups: outcome

vars == <<pc, vals, desc, is_abs, index, values1, values2, absolute,
          sorting_order, k, used_indices, nearest_dists, groups, dists,
          dists_col, sums, result>>

----------------------------------------------------------------------------
(* Bounds of the model *)

MaxLen == 3
MaxVal == 3
MaxGroup == 3
MaxEnt == 2
MaxCols == 2
MaxDist == 1

----------------------------------------------------------------------------
(* f64 *)

Sign(x) == IF x > 0 THEN 1 ELSE IF x < 0 THEN -1 ELSE 0

AbsInt(x) == IF x < 0 THEN -x ELSE x

RECURSIVE GCD(_, _)
GCD(a, b) == IF b = 0 THEN a ELSE GCD(b, a % b)

\* the f64 nearest to n/d, d # 0 (exact in this model)
Norm(n, d) ==
    LET g == GCD(AbsInt(n), AbsInt(d))
    IN  <<Sign(d) * (n \div g), AbsInt(d) \div g>>

F(i) == <<i, 1>>

NaN == <<0, 0>>
Inf == <<1, 0>>
NegInf == <<-1, 0>>

\* f64::MAX, kept symbolic: above every finite value of the model, below +inf
F64_MAX == <<2, 0>>

IsNaN(a) == a = NaN
IsInf(a) == a = Inf \/ a = NegInf
IsFinite(a) == a[2] # 0
IsZero(a) == a[2] # 0 /\ a[1] = 0

\* position on the extended real line, for comparisons of non-NaN values:
\* -inf, the finite values of the model, f64::MAX, +inf
Rank(a) == IF a[2] # 0 THEN 0 ELSE IF a = F64_MAX THEN 1 ELSE 2 * a[1]

\* a < b on f64 (false when either is NaN)
FLt(a, b) ==
    IF IsNaN(a) \/ IsNaN(b) THEN FALSE
    ELSE IF IsFinite(a) /\ IsFinite(b) THEN a[1] * b[2] < b[1] * a[2]
    ELSE Rank(a) < Rank(b)

FNeg(a) == <<-a[1], a[2]>>

\* f64::abs
FAbs(a) == <<AbsInt(a[1]), a[2]>>

\* a + b on f64
FAdd(a, b) ==
    IF IsNaN(a) \/ IsNaN(b) THEN NaN
    ELSE IF IsInf(a) /\ IsInf(b) THEN (IF a = b THEN a ELSE NaN)
    ELSE IF IsInf(a) THEN a
    ELSE IF IsInf(b) THEN b
    ELSE Norm(a[1] * b[2] + b[1] * a[2], a[2] * b[2])

\* a - b on f64
FSub(a, b) == FAdd(a, FNeg(b))

\* a / b on f64 (zeros are +0.0)
FDiv(a, b) ==
    IF IsNaN(a) \/ IsNaN(b) THEN NaN
    ELSE IF IsInf(b) THEN (IF IsInf(a) THEN NaN ELSE F(0))
    ELSE IF IsZero(b) THEN (IF IsZero(a) THEN NaN ELSE <<Sign(a[1]), 0>>)
    ELSE IF IsInf(a) THEN <<Sign(a[1]) * Sign(b[1]), 0>>
    ELSE Norm(a[1] * b[2], a[2] * b[1])

----------------------------------------------------------------------------
(* helpers on vectors *)

Reverse(s) == [i \in 1..Len(s) |-> s[Len(s) + 1 - i]]

Range(s) == {s[i] : i \in 1..Len(s)}

SeqsUpTo(S, n) == UNION {[1..m -> S] : m \in 0..n}

Max(S) == CHOOSE x \in S : \A y \in S : y <= x

----------------------------------------------------------------------------
(* get_ordering_index, vector_fns.rs:119-137 *)

\* the comparator handed to sort_by says Less for the pair (a, b)
SortsBeforeIgnoringDesc(a, b, d, ab) ==
    IF ab THEN FLt(FAbs(a), FAbs(b)) ELSE FLt(a, b)

SortsBefore(a, b, d, ab) ==
    IF ab
    THEN (IF d THEN FLt(FAbs(b), FAbs(a)) ELSE FLt(FAbs(a), FAbs(b)))
    ELSE (IF d THEN FLt(b, a) ELSE FLt(a, b))

\* slice::sort_by is stable: a pair goes before the first pair it sorts
\* strictly before, and behind every pair that compares Equal or Less
RECURSIVE InsertPair(_, _, _, _, _)
InsertPair(sorted, p, v, d, ab) ==
    IF sorted = <<>> THEN <<p>>
    ELSE IF SortsBefore(v[p + 1], v[sorted[Len(sorted)] + 1], d, ab)
         THEN Append(InsertPair(SubSeq(sorted, 1, Len(sorted) - 1), p, v, d, ab),
                     sorted[Len(sorted)])
         ELSE Append(sorted, p)

RECURSIVE SortPairs(_, _, _, _)
SortPairs(m, v, d, ab) ==
    IF m = 0 THEN <<>>
    ELSE InsertPair(SortPairs(m - 1, v, d, ab), m - 1, v, d, ab)

get_ordering_index(v, d, ab) == SortPairs(Len(v), v, d, ab)

----------------------------------------------------------------------------
(* calculate_dists, vector_fns.rs:51-101 *)

\* the two assertions at entry; the matrices of the model have the one row
CalcPanics(v1s, v2s) == v1s = <<>> \/ Len(v1s) # Len(v2s)

TargetSkippedNever(j, used) == FALSE

\* if used_indices.contains(&j) { continue; }
TargetSkipped(j, used) == j \in used

CloserOrEqual(dist, min_dist) == ~FLt(min_dist, dist)

\* if dist < min_dist
Closer(dist, min_dist) == FLt(dist, min_dist)

\* the scan over values2 from target j on; yields <<min_dist, min_index>>
RECURSIVE ScanTargets(_, _, _, _, _, _)
ScanTargets(j, v1, v2s, used, min_dist, min_index) ==
    IF j = Len(v2s) THEN <<min_dist, min_index>>
    ELSE IF TargetSkipped(j, used)
         THEN ScanTargets(j + 1, v1, v2s, used, min_dist, min_index)
         ELSE LET dist == FAbs(FSub(v1, v2s[j + 1]))
              IN  IF Closer(dist, min_dist)
                  THEN ScanTargets(j + 1, v1, v2s, used, dist, j)
                  ELSE ScanTargets(j + 1, v1, v2s, used, min_dist, min_index)

NearestUnused(v1, v2s, used) == ScanTargets(0, v1, v2s, used, F64_MAX, 0)[2]

\* the entry written for a source v1 matched to a target v2
SignedDist(v2, v1, abs) ==
    IF abs THEN FSub(v2, v1) ELSE FDiv(FSub(v2, v1), v1)

\* one iteration of the matching loop, for source i; yields <<used, dists>>
LoopBody(i, v1s, v2s, abs, used, nd) ==
    LET v1 == v1s[i + 1]
        min_index == NearestUnused(v1, v2s, used)
    IN  <<used \cup {min_index},
          [nd EXCEPT ![i + 1] = SignedDist(v2s[min_index + 1], v1, abs)]>>

SourceOrderDescending(v1s) == get_ordering_index(v1s, TRUE, FALSE)

\* let sorting_order = get_ordering_index(&values1_ref_var.to_vec(), false, false)
SourceOrder(v1s) == get_ordering_index(v1s, FALSE, FALSE)

RECURSIVE MatchLoop(_, _, _, _, _, _, _)
MatchLoop(done, order, v1s, v2s, abs, used, nd) ==
    IF done = Len(order) THEN nd
    ELSE LET st == LoopBody(order[done + 1], v1s, v2s, abs, used, nd)
         IN  MatchLoop(done + 1, order, v1s, v2s, abs, st[1], st[2])

\* the value returned for inputs that pass the assertions
calculate_dists(v1s, v2s, abs) ==
    MatchLoop(0, SourceOrder(v1s), v1s, v2s, abs, {},
              [i \in 1..Len(v1s) |-> F(0)])

----------------------------------------------------------------------------
(* aggregate_to_groups_single_col, lib.rs:138-162 *)

\* the loop over groups_out from entity i on; yields <<counts, sums>>,
\* both indexed by group id 0..max_group
RECURSIVE Accumulate(_, _, _, _, _)
Accumulate(i, col, grps, counts, acc) ==
    IF i = Len(grps) THEN <<counts, acc>>
    ELSE LET group == grps[i + 1]
         IN  Accumulate(i + 1, col, grps,
                        [counts EXCEPT ![group + 1] = @ + 1],
                        [acc EXCEPT ![group + 1] = FAdd(@, col[i + 1])])

\* *sum = if *count != 0 { *sum / *count as f64 } else { 0.0 }
MeanOf(sum, count) == IF count # 0 THEN FDiv(sum, F(count)) ELSE F(0)

DropNothing(s) == s

\* sums.remove(0)
DropJunk(s) == Tail(s)

aggregate_to_groups_single_col(col, grps) ==
    LET max_group == Max(Range(grps))
        st == Accumulate(0, col, grps,
                         [g \in 1..(max_group + 1) |-> 0],
                         [g \in 1..(max_group + 1) |-> F(0)])
        means == [g \in 1..(max_group + 1) |-> MeanOf(st[2][g], st[1][g])]
    IN  DropJunk(means)

----------------------------------------------------------------------------
(* aggregate_to_groups, lib.rs:89-124 *)

NCols(d) == Len(d[1])

Column(d, c) == [r \in 1..Len(d) |-> d[r][c + 1]]

\* DMatrix::zeros(nrows, ncols)
Zeros(nrows, ncols) == [r \in 1..nrows |-> [c \in 1..ncols |-> F(0)]]

\* for (i, &value) in vec.iter().enumerate() { result[(i, c)] = value; }
\* an index (i, c) outside the matrix panics; yields [panicked, m]
WriteColumn(res, c, vec) ==
    IF res.panicked THEN res
    ELSE IF Len(vec) > Len(res.m) THEN [panicked |-> TRUE, m |-> <<>>]
    ELSE [panicked |-> FALSE,
          m |-> [r \in 1..Len(res.m) |->
                    IF r <= Len(vec) THEN [res.m[r] EXCEPT ![c + 1] = vec[r]]
                    ELSE res.m[r]]]

\* the loop over the columns of dists from column col on
RECURSIVE WriteDistColumns(_, _, _, _)
WriteDistColumns(res, col, d, grps) ==
    IF col = NCols(d) THEN res
    ELSE WriteDistColumns(
             WriteColumn(res, col + 2,
                         aggregate_to_groups_single_col(Column(d, col), grps)),
             col + 1, d, grps)

\* v1col is the first column of values1: the primary value of each entity
aggregate_to_groups(v1col, d, grps) ==
    LET zero == [panicked |-> FALSE, m |-> Zeros(Len(grps), NCols(d) + 2)]
        mean_dist == aggregate_to_groups_single_col(v1col, grps)
        r0 == WriteColumn(zero, 0, mean_dist)
        dists_abs == Column(d, 0)
        values1_transformed ==
            [i \in 1..Len(v1col) |-> FAdd(v1col[i], dists_abs[i])]
        r1 == WriteColumn(r0, 1, values1_transformed)
    IN  WriteDistColumns(r1, 0, d, grps)

----------------------------------------------------------------------------
(* uamutate, lib.rs:66-67 *)

\* the distance matrix handed to aggregate_to_groups: one row per source
\* entity, the absolute distance in column 0 and the relative one in column 1
DistMatrix(v1s, v2s) ==
    LET abs_col == calculate_dists(v1s, v2s, TRUE)
        rel_col == calculate_dists(v1s, v2s, FALSE)
    IN  [i \in 1..Len(v1s) |-> <<abs_col[i], rel_col[i]>>]

----------------------------------------------------------------------------
(* inputs *)

Floats(lo, hi) == {F(i) : i \in lo..hi}

\* the vectors of the unit tests, vector_fns.rs:145, 166, 167
TestVals == <<F(1), F(-2), F(3), F(-4), F(5)>>
TestValues1 == <<F(1), F(2), F(4), F(5)>>
TestValues2 == <<F(7), F(9), F(3), F(2)>>

NoResult == [panicked |-> FALSE, m |-> <<>>]

OrdIdle == vals = <<>> /\ desc = FALSE /\ is_abs = FALSE /\ index = <<>>

DistsInputIdle == values1 = <<>> /\ values2 = <<>>

DistsIdle ==
    /\ absolute = FALSE /\ sorting_order = <<>> /\ k = 0
    /\ used_indices = {} /\ nearest_dists = <<>>

ColIdle == dists_col = <<>> /\ sums = <<>>

AggIdle == dists = <<>> /\ result = NoResult

----------------------------------------------------------------------------
(* SpecOrd: one call of get_ordering_index *)

InitOrd ==
    /\ pc = "call"
    /\ vals \in SeqsUpTo(Floats(-MaxVal, MaxVal), MaxLen) \cup {TestVals}
    /\ desc \in BOOLEAN
    /\ is_abs \in BOOLEAN
    /\ index = <<>>
    /\ DistsInputIdle /\ DistsIdle /\ ColIdle /\ AggIdle /\ groups = <<>>

Order ==
    /\ pc = "call"
    /\ index' = get_ordering_index(vals, desc, is_abs)
    /\ pc' = "returned"
    /\ UNCHANGED <<vals, desc, is_abs, values1, values2, absolute,
                   sorting_order, k, used_indices, nearest_dists, groups,
                   dists, dists_col, sums, result>>

NextOrd == Order

SpecOrd == InitOrd /\ [][NextOrd]_vars

----------------------------------------------------------------------------
(* SpecDists: one call of calculate_dists, an iteration of the matching     *)
(* loop per step.  The rows hold finite values, so every distance is below *)
(* f64::MAX and no comparison meets a NaN; rows of unequal length and      *)
(* empty rows are among the inputs.                                        *)

InitDists ==
    /\ pc = "entry"
    /\ \E pair \in (SeqsUpTo(Floats(0, MaxVal), MaxEnt)
                        \X SeqsUpTo(Floats(0, MaxVal), MaxEnt))
                   \cup {<<TestValues1, TestValues2>>} :
           /\ values1 = pair[1]
           /\ values2 = pair[2]
    /\ absolute \in BOOLEAN
    /\ sorting_order = <<>> /\ k = 0
    /\ used_indices = {} /\ nearest_dists = <<>>
    /\ OrdIdle /\ ColIdle /\ AggIdle /\ groups = <<>>

\* lines 52-71
Enter ==
    /\ pc = "entry"
    /\ IF CalcPanics(values1, values2)
       THEN /\ pc' = "panicked"
            /\ UNCHANGED <<sorting_order, nearest_dists>>
       ELSE /\ pc' = "loop"
            /\ sorting_order' = SourceOrder(values1)
            /\ nearest_dists' = [i \in 1..Len(values1) |-> F(0)]
    /\ UNCHANGED <<vals, desc, is_abs, index, values1, values2, absolute, k,
                   used_indices, groups, dists, dists_col, sums, result>>

\* lines 73-98, one iteration
Iterate ==
    /\ pc = "loop"
    /\ k < Len(sorting_order)
    /\ LET st == LoopBody(sorting_order[k + 1], values1, values2, absolute,
                          used_indices, nearest_dists)
       IN  /\ used_indices' = st[1]
           /\ nearest_dists' = st[2]
    /\ k' = k + 1
    /\ UNCHANGED <<pc, vals, desc, is_abs, index, values1, values2, absolute,
                   sorting_order, groups, dists, dists_col, sums, result>>

\* line 100
Return ==
    /\ pc = "loop"
    /\ k = Len(sorting_order)
    /\ pc' = "returned"
    /\ UNCHANGED <<vals, desc, is_abs, index, values1, values2, absolute,
                   sorting_order, k, used_indices, nearest_dists, groups,
                   dists, dists_col, sums, result>>

NextDists == Enter \/ Iterate \/ Return

SpecDists == InitDists /\ [][NextDists]_vars

----------------------------------------------------------------------------
(* SpecCol: one call of aggregate_to_groups_single_col *)

InitCol ==
    /\ pc = "call"
    /\ \E n \in 1..MaxLen :
           /\ dists_col \in [1..n -> Floats(-MaxDist, MaxDist)]
           /\ groups \in [1..n -> 1..MaxGroup]
    /\ sums = <<>>
    /\ OrdIdle /\ DistsInputIdle /\ DistsIdle /\ AggIdle

AggregateColumn ==
    /\ pc = "call"
    /\ sums' = aggregate_to_groups_single_col(dists_col, groups)
    /\ pc' = "returned"
    /\ UNCHANGED <<vals, desc, is_abs, index, values1, values2, absolute,
                   sorting_order, k, used_indices, nearest_dists, groups,
                   dists, dists_col, result>>

NextCol == AggregateColumn

SpecCol == InitCol /\ [][NextCol]_vars

----------------------------------------------------------------------------
(* SpecAgg: one call of aggregate_to_groups; values1 holds the first column *)
(* of its values1 argument                                                  *)

InitAgg ==
    /\ pc = "call"
    /\ \E n \in 1..MaxEnt, c \in 1..MaxCols :
           /\ values1 \in [1..n -> Floats(0, MaxVal)]
           /\ dists \in [1..n -> [1..c -> Floats(-MaxDist, MaxDist)]]
           /\ groups \in [1..n -> 1..MaxGroup]
    /\ values2 = <<>>
    /\ result = NoResult
    /\ OrdIdle /\ DistsIdle /\ ColIdle

Aggregate ==
    /\ pc \in {"call", "matched"}
    /\ result' = aggregate_to_groups(values1, dists, groups)
    /\ pc' = "done"
    /\ UNCHANGED <<vals, desc, is_abs, index, values1, values2, absolute,
                   sorting_order, k, used_indices, nearest_dists, groups,
                   dists, dists_col, sums>>

NextAgg == Aggregate

SpecAgg == InitAgg /\ [][NextAgg]_vars

----------------------------------------------------------------------------
(* Spec: uamutate from line 66 on, for values already read and transformed *)

Init ==
    /\ pc = "read"
    /\ \E n \in 1..MaxEnt :
           /\ values1 \in [1..n -> Floats(0, MaxVal)]
           /\ values2 \in [1..n -> Floats(0, MaxVal)]
           /\ groups \in [1..n -> 1..MaxGroup]
    /\ dists = <<>>
    /\ result = NoResult
    /\ OrdIdle /\ DistsIdle /\ ColIdle

\* line 66
MatchDists ==
    /\ pc = "read"
    /\ dists' = DistMatrix(values1, values2)
    /\ pc' = "matched"
    /\ UNCHANGED <<vals, desc, is_abs, index, values1, values2, absolute,
                   sorting_order, k, used_indices, nearest_dists, groups,
                   dists_col, sums, result>>

Next == MatchDists \/ Aggregate

Spec == Init /\ [][Next]_vars

----------------------------------------------------------------------------
(* reference definitions for the properties; inputs are integer-valued *)

IntOf(x) == x[1]

Indices(v) == 0..(Len(v) - 1)

Members(g, grps) == {i \in 1..Len(grps) : grps[i] = g}

RECURSIVE SumInts(_, _)
SumInts(S, f) ==
    IF S = {} THEN 0
    ELSE LET x == CHOOSE y \in S : TRUE
         IN  f[x] + SumInts(S \ {x}, f)

\* e is the f64 num / den, den > 0
IsQuotient(e, num, den) == e[2] > 0 /\ e[1] * den = num * e[2]

Key(x, ab) == IF ab THEN FAbs(x) ELSE x

KeysDistinct(v, ab) ==
    \A a, b \in 1..Len(v) : a # b => Key(v[a], ab) # Key(v[b], ab)

IsPermutation(s, n) == Len(s) = n /\ Range(s) = 0..(n - 1)

\* the place of source i when the sources are visited in ascending order of
\* value, equal values in index order
RefPlace(i, v1s) ==
    Cardinality({j \in Indices(v1s) :
                    \/ IntOf(v1s[j + 1]) < IntOf(v1s[i + 1])
                    \/ IntOf(v1s[j + 1]) = IntOf(v1s[i + 1]) /\ j < i})

RefOrder(v1s) ==
    [p \in 1..Len(v1s) |-> CHOOSE i \in Indices(v1s) : RefPlace(i, v1s) = p - 1]

\* the free target nearest to a, the lowest index among the equally near
RefTarget(a, free, v2s) ==
    CHOOSE j \in free : \A j2 \in free :
        \/ AbsInt(a - IntOf(v2s[j + 1])) < AbsInt(a - IntOf(v2s[j2 + 1]))
        \/ /\ AbsInt(a - IntOf(v2s[j + 1])) = AbsInt(a - IntOf(v2s[j2 + 1]))
           /\ j <= j2

\* the matching as a function from 1-based place to target, from place p on
RECURSIVE RefMatch(_, _, _, _, _)
RefMatch(p, order, free, v1s, v2s) ==
    IF p > Len(order) THEN <<>>
    ELSE LET j == RefTarget(IntOf(v1s[order[p] + 1]), free, v2s)
         IN  <<j>> \o RefMatch(p + 1, order, free \ {j}, v1s, v2s)

\* the target of source i under the reference matching
RefTargetOf(i, v1s, v2s) ==
    RefMatch(1, RefOrder(v1s), Indices(v2s), v1s, v2s)[RefPlace(i, v1s) + 1]

EntityPermutations(n) == {p \in [1..n -> 1..n] : Range(p) = 1..n}

Permuted(v, p) == [i \in 1..Len(v) |-> v[p[i]]]

----------------------------------------------------------------------------
(* properties of get_ordering_index, checked under SpecOrd *)

\* C9 as stated: for every input vector, repeated values included, the
\* descending result is the exact reverse of the ascending one, and the
\* ascending result is a permutation of the indices along which the
\* (absolute) values do not decrease.
C9_DescIsReverseAlways ==
    pc = "returned" =>
        /\ desc => index = Reverse(get_ordering_index(vals, FALSE, is_abs))
        /\ IsPermutation(index, Len(vals))
        /\ ~desc => \A a, b \in 1..Len(index) : a < b =>
               ~FLt(Key(vals[index[b] + 1], is_abs), Key(vals[index[a] + 1], is_abs))

\* C9 amended: the descending result is the exact reverse of the ascending
\* one when the (absolute) values are pairwise distinct; for every input the
\* result is a permutation of the indices, non-decreasing in the (absolute)
\* values when ascending and non-increasing when descending, and indices of
\* equal (absolute) values stay in their original order in both directions;
\* [1,-2,3,-4,5] gives [3,1,0,2,4] ascending and [0,1,2,3,4] ascending by
\* absolute value.
C9_DescIsReverseWhenDistinct ==
    pc = "returned" =>
        /\ (desc /\ KeysDistinct(vals, is_abs)) =>
               index = Reverse(get_ordering_index(vals, FALSE, is_abs))
        /\ IsPermutation(index, Len(vals))
        /\ \A a, b \in 1..Len(index) : a < b =>
               LET ka == Key(vals[index[a] + 1], is_abs)
                   kb == Key(vals[index[b] + 1], is_abs)
               IN  /\ ~desc => ~FLt(kb, ka)
                   /\ desc => ~FLt(ka, kb)
                   /\ ka = kb => index[a] < index[b]
        /\ (vals = TestVals /\ ~desc /\ ~is_abs) => index = <<3, 1, 0, 2, 4>>
        /\ (vals = TestVals /\ ~desc /\ is_abs) => index = <<0, 1, 2, 3, 4>>
        /\ (vals = TestVals /\ desc /\ ~is_abs) => index = <<4, 2, 0, 1, 3>>
        /\ (vals = TestVals /\ desc /\ is_abs) => index = <<4, 3, 2, 1, 0>>

C9_Witness ==
    /\ pc = "returned"
    /\ desc /\ is_abs
    /\ Len(vals) = 3
    /\ KeysDistinct(vals, TRUE)
    /\ \E a \in 1..3 : IntOf(vals[a]) < 0
    /\ index # <<0, 1, 2>>
    /\ index # <<2, 1, 0>>

----------------------------------------------------------------------------
(* properties of calculate_dists, checked under SpecDists *)

C7_NoSilentNonFinite ==
    (pc = "returned" /\ ~absolute /\ \E i \in 1..Len(values1) : IsZero(values1[i]))
        => \A i \in 1..Len(nearest_dists) : IsFinite(nearest_dists[i])

----------------------------------------------------------------------------
(* properties of aggregate_to_groups_single_col, checked under SpecCol *)

\* C10: the returned vector has one entry per group id 1..max, and the entry
\* of every group with a member is the sum of the column over its members
\* divided by their number.
C10_GroupMeans ==
    pc = "returned" =>
        /\ Len(sums) = Max(Range(groups))
        /\ \A g \in Range(groups) :
               IsQuotient(sums[g],
                          SumInts(Members(g, groups),
                                  [i \in 1..Len(groups) |-> IntOf(dists_col[i])]),
                          Cardinality(Members(g, groups)))

C10_Witness ==
    /\ pc = "returned"
    /\ groups = <<3, 1, 3>>
    /\ dists_col = <<F(1), F(-1), F(0)>>
    /\ sums = <<F(-1), F(0), <<1, 2>>>>

----------------------------------------------------------------------------
(* properties of aggregate_to_groups, checked under SpecAgg *)

\* C3: the result matrix has as many rows as the maximum group id.
C3_RowCountIsMaxGroup ==
    (pc = "done" /\ ~result.panicked) => Len(result.m) = Max(Range(groups))

\* C4: column 1 of row g-1 is the mean over the members of group g of
\* (original value + absolute distance).
C4_MeanMutated ==
    (pc = "done" /\ ~result.panicked) =>
        \A g \in Range(groups) :
            IsQuotient(result.m[g][2],
                       SumInts(Members(g, groups),
                               [i \in 1..Len(groups) |->
                                   IntOf(values1[i]) + IntOf(dists[i][1])]),
                       Cardinality(Members(g, groups)))

\* C5: the row of a group id without members is 0.0 in every column.
C5_EmptyGroupZero ==
    (pc = "done" /\ ~result.panicked) =>
        \A g \in (1..Max(Range(groups))) \ Range(groups) :
            \A c \in 1..Len(result.m[g]) : result.m[g][c] = F(0)

\* C8: for every non-empty group vector of ids >= 1 the call completes.
C8_SparseIdsNeverFail ==
    pc = "done" => ~result.panicked

----------------------------------------------------------------------------
(* property of uamutate, checked under Spec *)

\* C6: permuting the source entities and the group vector alike leaves the
\* aggregated result matrix unchanged.
C6_PermutationInvariant ==
    pc = "done" =>
        \A p \in EntityPermutations(Len(values1)) :
            aggregate_to_groups(Permuted(values1, p),
                                DistMatrix(Permuted(values1, p), values2),
                                Permuted(groups, p)) = result

====
